---- MODULE Spec2Model ----
(***************************************************************************)
(* Model of netlify/functions/calculate-slots.js: the handler that maps    *)
(* the busy intervals of one calendar onto a fixed grid of 30-minute slots *)
(* and renders the free slots as one English sentence.                     *)
(*                                                                         *)
(* Time is counted in minutes (Date.getTime() / 60000); every timestamp    *)
(* the model feeds in is a whole minute.  JavaScript values are records    *)
(* tagged with a "type" field; strings the handler builds are TLA+ strings *)
(* built with \o and ToString, so that matching them is string equality,   *)
(* as in the code.                                                         *)
(***************************************************************************)
EXTENDS Integers, Sequences, FiniteSets, TLC

VARIABLES
  hostOffset,      \* UTC offset (minutes) of the process running the handler
  event,           \* the event of the request being handled
  pc,              \* "idle" | "invoked" | "returned"
  busySlots,       \* the handler's busySlots array (line 53)
  availableSlots,  \* the handler's availableSlots array (line 85)
  response         \* the value the handler returned

vars == <<hostOffset, event, pc, busySlots, availableSlots, response>>

----------------------------------------------------------------------------
(* Bounds of the model *)

\* the longest busy list a request carries
MaxBusy == 2

\* the instants (minutes since 00:00 UTC of the day) a timestamp may name:
\* 08:50, 09:00, 09:10, 09:30, 09:50, 18:00
TimePoints == {530, 540, 550, 570, 590, 1080}

\* the UTC offsets of the hosts the function may be deployed on: UTC, UTC-4
HostOffsets == {0, -240}

----------------------------------------------------------------------------
(* JavaScript values *)

Undefined == [type |-> "undefined"]

JSONNull == [type |-> "null"]

JSString(s) == [type |-> "string", text |-> s]

JSArray(items) == [type |-> "array", items |-> items]

\* the result of evaluating an expression: a value, or a thrown exception
Returned(v) == [threw |-> FALSE, value |-> v]

Thrown == [threw |-> TRUE, value |-> Undefined]

\* reading a property of undefined or null throws a TypeError
IsNullish(v) == v.type \in {"undefined", "null"}

\* a Date: NaN time value for an invalid date
InvalidDate == [nan |-> TRUE, time |-> 0]

DateOf(t) == [nan |-> FALSE, time |-> t]

\* new Date(x) for a timestamp string x: an ISO 8601 string with an offset
\* names an instant, anything else gives an Invalid Date
NewDate(x) == IF x.type = "string" /\ x.iso THEN DateOf(x.instant) ELSE InvalidDate

\* a.getTime() < b.getTime(): false as soon as one side is NaN
TimeLess(a, b) == ~a.nan /\ ~b.nan /\ a.time < b.time

\* new Date(d.getTime() + 30 * 60000)
AddThirtyMinutes(d) == IF d.nan THEN InvalidDate ELSE DateOf(d.time + 30)

\* d.getHours() and d.getMinutes(): the wall clock of the host's time zone
GetHours(d, tz) == ((d.time + tz) % 1440) \div 60

GetMinutes(d, tz) == (d.time + tz) % 60

\* 9:30 becomes 930; the handler never calls it
getNumericalTime(date, tz) == GetHours(date, tz) * 100 + GetMinutes(date, tz)

----------------------------------------------------------------------------
(* The requests *)

IsoTimestamp(t) == [type |-> "string", iso |-> TRUE, instant |-> t]

GarbageTimestamp == [type |-> "string", iso |-> FALSE, instant |-> 0]

TimestampStrings == {IsoTimestamp(t) : t \in TimePoints} \cup {GarbageTimestamp}

BusyIntervals == [start : TimestampStrings, end : TimestampStrings]

BusyLists == UNION {[1..n -> BusyIntervals] : n \in 0..MaxBusy}

\* the values of the "busy" key: absent, a non-array, or a list of intervals
BusyValues == {Undefined, JSString("busy")} \cup {JSArray(l) : l \in BusyLists}

CalendarEntries == {Undefined} \cup {[type |-> "object", busy |-> b] : b \in BusyValues}

CalendarMaps == {Undefined} \cup {[type |-> "object", entry |-> e] : e \in CalendarEntries}

JSONDocuments == {JSONNull} \cup {[type |-> "object", calendars |-> c] : c \in CalendarMaps}

\* event.body: absent, the empty string, text that is not JSON, or the
\* serialisation of a JSON document
EmptyBody == [type |-> "string", text |-> "", json |-> Undefined]

NotJsonBody == [type |-> "string", text |-> "not json", json |-> Undefined]

JsonBody(doc) == [type |-> "string", text |-> "json", json |-> doc]

Bodies == {Undefined, EmptyBody, NotJsonBody} \cup {JsonBody(d) : d \in JSONDocuments}

Events == {Undefined} \cup {[type |-> "object", body |-> b] : b \in Bodies}

----------------------------------------------------------------------------
(* Helpers of the handler *)

\* ${n < 10 ? '0' + n : n}
ZeroPad(n) == IF n < 10 THEN "0" \o ToString(n) ELSE ToString(n)

\* `${hour}:${minute < 10 ? '0' + minute : minute}`
HourMinuteString(hour, minute) == ToString(hour) \o ":" \o ZeroPad(minute)

\* the slot grid of the handler
allSlots ==
  << "9:00", "9:30", "10:00", "10:30", "11:00", "11:30",
     "12:00", "12:30", "13:00", "13:30", "14:00", "14:30",
     "15:00", "15:30", "16:00", "16:30", "17:00", "17:30" >>

Range(s) == {s[i] : i \in 1..Len(s)}

\* the strings of the grid, as allSlots.includes searches them
GridSlots == Range(allSlots)

\* parseInt(slot.replace(':', '')) for a slot string "H:MM": the digits of H
\* followed by the two digits MM, read as one decimal number
SlotNumber ==
  [slot \in GridSlots |->
     CHOOSE n \in 0..2359 : HourMinuteString(n \div 100, n % 100) = slot]

ParseSlot(slot) == SlotNumber[slot]

formatNumericalTime(num) ==
  LET hours == num \div 100
      minutes == num % 100
      ampm == IF hours >= 12 THEN "pm" ELSE "am"
      formattedHours == IF hours % 12 # 0 THEN hours % 12 ELSE 12
  IN  IF minutes = 0
        THEN ToString(formattedHours) \o ampm
        ELSE ToString(formattedHours) \o ":" \o ZeroPad(minutes) \o ampm

\* `${formatNumericalTime(startTime)} to ${formatNumericalTime(endTime)}`,
\* tabulated over the grid
FormattedSlot ==
  [slot \in GridSlots |->
     LET startTime == ParseSlot(slot)
         endTime == startTime + 30
     IN  formatNumericalTime(startTime) \o " to " \o formatNumericalTime(endTime)]

RenderSlot(slot) == FormattedSlot[slot]

RECURSIVE Join(_, _)
\* Array.prototype.join
Join(items, sep) ==
  IF Len(items) = 0 THEN ""
  ELSE IF Len(items) = 1 THEN items[1]
  ELSE items[1] \o sep \o Join(Tail(items), sep)

----------------------------------------------------------------------------
(* The handler *)

\* lines 40-46: the busy list of the request
ExtractRawBusySlots(ev) ==
  IF IsNullish(ev) THEN Thrown                      \* event.body of undefined
  ELSE IF ev.body.type = "undefined" \/ ev.body.text = ""
    THEN Returned(JSArray(<<>>))                    \* if (event.body) is false
  ELSE IF ev.body.text # "json" THEN Thrown         \* JSON.parse throws
  ELSE
    LET body == ev.body.json IN
    IF IsNullish(body) THEN Thrown                  \* body.calendars
    ELSE IF IsNullish(body.calendars) THEN Thrown   \* calendars[...]
    ELSE IF IsNullish(body.calendars.entry) THEN Thrown   \* [...].busy
    ELSE IF body.calendars.entry.busy.type = "undefined"
      THEN Returned(JSArray(<<>>))                  \* busy || []
    ELSE Returned(body.calendars.entry.busy)

\* a walk that pushes every step of a busy interval, on the grid or not
SlotMatchesAlways(formattedBusySlot) == TRUE

\* the test that guards busySlots.push (line 77): allSlots.includes(...)
SlotMatches(formattedBusySlot) == formattedBusySlot \in GridSlots

RECURSIVE WalkBusySlot(_, _, _, _)
\* lines 59-82: the while loop over one busy interval, from `current` on;
\* `pushed` is busySlots so far
WalkBusySlot(current, end, tz, pushed) ==
  IF ~TimeLess(current, end) THEN pushed
  ELSE
    LET next == AddThirtyMinutes(current)
        formattedBusySlot ==
          HourMinuteString(GetHours(current, tz), GetMinutes(current, tz))
    IN  WalkBusySlot(next, end, tz,
          IF SlotMatches(formattedBusySlot)
            THEN Append(pushed, formattedBusySlot)
            ELSE pushed)

RECURSIVE BusySlotsOf(_, _, _)
\* lines 53-83: rawBusySlots.forEach(...)
BusySlotsOf(rawBusySlots, tz, pushed) ==
  IF Len(rawBusySlots) = 0 THEN pushed
  ELSE
    LET slot == Head(rawBusySlots)
        start == NewDate(slot.start)
        end == NewDate(slot.end)
    IN  BusySlotsOf(Tail(rawBusySlots), tz, WalkBusySlot(start, end, tz, pushed))

\* lines 85-96
AvailableSlotsOf(busy) ==
  IF Len(busy) = 0 THEN allSlots
  ELSE LET busySet == Range(busy)
       IN  SelectSeq(allSlots, LAMBDA slot : slot \notin busySet)

\* the start of every message that lists slots (line 99)
MessagePrefix == "These are the available time slots "

\* lines 99-115
ResultMessage(available) ==
  IF Len(available) = 0 THEN "There are no available time slots."
  ELSE IF Len(available) = 1 THEN MessagePrefix \o RenderSlot(available[1])
  ELSE
    LET formattedAvailableSlots ==
          [i \in 1..Len(available) |-> RenderSlot(available[i])]
        lastSlot == formattedAvailableSlots[Len(available)]
        rest == SubSeq(formattedAvailableSlots, 1, Len(available) - 1)
    IN  MessagePrefix \o Join(rest, ", ") \o " and " \o lastSlot

\* lines 119-125
SuccessResponse(message) ==
  [statusCode |-> 200,
   headers |-> {<<"Content-Type", "text/plain">>},
   body |-> message]

\* a catch block that reports the cause of the failure to the caller
ErrorResponseWithCause ==
  [statusCode |-> 500,
   headers |-> {},
   body |-> "Unexpected token o in JSON at position 1"]

\* lines 130-133
ErrorResponse ==
  [statusCode |-> 500,
   headers |-> {},
   body |-> "An error occurred while processing the request."]

\* nothing returned (yet)
NoResponse == [statusCode |-> 0, headers |-> {}, body |-> ""]

\* lines 31-125: the try block; threw = TRUE when an exception leaves it
TryBlock(ev, tz) ==
  LET raw == ExtractRawBusySlots(ev) IN
  IF raw.threw \/ raw.value.type # "array"    \* forEach is not a function
    THEN [threw |-> TRUE, busySlots |-> <<>>, availableSlots |-> <<>>,
          response |-> NoResponse]
    ELSE
      LET busy == BusySlotsOf(raw.value.items, tz, <<>>)
          available == AvailableSlotsOf(busy)
      IN  [threw |-> FALSE, busySlots |-> busy, availableSlots |-> available,
           response |-> SuccessResponse(ResultMessage(available))]

\* lines 29-135: exports.handler on a host whose UTC offset is tz
HandlerResult(ev, tz) ==
  LET run == TryBlock(ev, tz) IN
  IF run.threw
    THEN [run EXCEPT !.response = ErrorResponse]    \* the catch block
    ELSE run

----------------------------------------------------------------------------
(* The state machine: one request per behaviour, the function keeps no     *)
(* state between invocations.                                              *)

Init ==
  /\ hostOffset \in HostOffsets
  /\ event = Undefined
  /\ pc = "idle"
  /\ busySlots = <<>>
  /\ availableSlots = <<>>
  /\ response = NoResponse

\* the platform delivers a request
Invoke ==
  /\ pc = "idle"
  /\ event' \in Events
  /\ pc' = "invoked"
  /\ UNCHANGED <<hostOffset, busySlots, availableSlots, response>>

\* exports.handler runs to its return
Handler ==
  /\ pc = "invoked"
  /\ \E r \in {HandlerResult(event, hostOffset)} :
       /\ busySlots' = r.busySlots
       /\ availableSlots' = r.availableSlots
       /\ response' = r.response
  /\ pc' = "returned"
  /\ UNCHANGED <<hostOffset, event>>

Next == Invoke \/ Handler

Spec == Init /\ [][Next]_vars

----------------------------------------------------------------------------
(* Vocabulary of the claims *)

Returned200 == pc = "returned" /\ response.statusCode = 200

\* the busy list the request carries (empty when it carries none)
RequestBusyList ==
  LET raw == ExtractRawBusySlots(event) IN
  IF ~raw.threw /\ raw.value.type = "array" THEN raw.value.items ELSE <<>>

\* start of the i-th grid slot, in minutes since midnight: 09:00, 09:30, ...
GridStart(i) == 540 + 30 * (i - 1)

GridIndexes == 1..Len(allSlots)

IsFree(i) == allSlots[i] \in Range(availableSlots)

Parsable(interval) == interval.start.iso /\ interval.end.iso

\* the interval read on the wall clock of offset tz, in minutes
WallStart(interval, tz) == interval.start.instant + tz

WallEnd(interval, tz) == interval.end.instant + tz

\* the window [start, start+30) of grid slot i, on some day, overlaps the interval
OverlapsSlot(interval, i, tz) ==
  /\ Parsable(interval)
  /\ \E day \in -1..1 :
       /\ WallStart(interval, tz) < 1440 * day + GridStart(i) + 30
       /\ 1440 * day + GridStart(i) < WallEnd(interval, tz)

\* the intervals of the list together cover 09:00-18:00 of some day
CoversWorkingDay(list, tz) ==
  \E day \in -1..1 :
    \A m \in 540..1079 :
      \E k \in 1..Len(list) :
        /\ Parsable(list[k])
        /\ WallStart(list[k], tz) <= 1440 * day + m
        /\ 1440 * day + m < WallEnd(list[k], tz)

\* a time of day (minutes since midnight) on the 12-hour clock: "9am", "9:30am"
ClockLabel(m) ==
  LET hour == (m \div 60) % 24
      minute == m % 60
      hour12 == IF hour % 12 = 0 THEN 12 ELSE hour % 12
      suffix == IF hour < 12 THEN "am" ELSE "pm"
  IN  ToString(hour12)
        \o (IF minute = 0 THEN "" ELSE ":" \o ZeroPad(minute))
        \o suffix

\* the rendered free slots of the response, in grid order
RenderedFree == [i \in 1..Len(availableSlots) |-> RenderSlot(availableSlots[i])]

\* "{s1} and {s2}", "{s1}, {s2}, and {s3}", ...
OxfordList(items) ==
  IF Len(items) = 2 THEN items[1] \o " and " \o items[2]
  ELSE Join(SubSeq(items, 1, Len(items) - 1), ", ")
         \o ", and " \o items[Len(items)]

----------------------------------------------------------------------------
(* The claims *)

\* C1: every grid slot whose window [start, start+30) overlaps a busy
\* interval [s, e), s < e, is removed from the free slots, aligned to the
\* grid or not (read on the host's own wall clock).
C1_OverlappedSlotsAreRemoved ==
  Returned200 =>
    \A k \in 1..Len(RequestBusyList) : \A i \in GridIndexes :
      OverlapsSlot(RequestBusyList[k], i, hostOffset) => ~IsFree(i)

\* C2: the message of a request is the same on a host of every UTC offset.
C2_MessageIndependentOfHostOffset ==
  pc = "returned" =>
    \A tz \in HostOffsets : HandlerResult(event, tz).response.body = response.body

\* C3: no body, no calendars / calendar key, or no busy list: status 200 and
\* the message that lists all 18 slots.
C3_AbsencesDefaultToNoBusy ==
  LET noBody == event.type = "object" /\ event.body.type = "undefined"
      doc == event.body.json
      hasDoc == /\ event.type = "object"
                /\ event.body.type = "string"
                /\ event.body.text = "json"
                /\ doc.type = "object"
      noCalendars == hasDoc /\ doc.calendars.type = "undefined"
      noCalendarKey == /\ hasDoc
                       /\ doc.calendars.type = "object"
                       /\ doc.calendars.entry.type = "undefined"
      noBusy == /\ hasDoc
                /\ doc.calendars.type = "object"
                /\ doc.calendars.entry.type = "object"
                /\ doc.calendars.entry.busy.type = "undefined"
  IN  (pc = "returned" /\ (noBody \/ noCalendars \/ noCalendarKey \/ noBusy)) =>
        /\ response.statusCode = 200
        /\ availableSlots = allSlots
        /\ response.body = ResultMessage(allSlots)

\* C4: a busy interval whose start or end is not a parsable timestamp fails
\* the request with status 500.
C4_UnparsableTimestampFailsRequest ==
  (pc = "returned" /\ \E k \in 1..Len(RequestBusyList) : ~Parsable(RequestBusyList[k]))
    => response.statusCode = 500

\* C5: the handler returns for every event, with one of two outcomes: 200,
\* text/plain and the message rendered from all the free slots, or 500 and
\* the fixed generic error string; a body that is not JSON gives the 500.
C5_TwoOutcomes ==
  pc = "returned" =>
    /\ \/ /\ response.statusCode = 200
          /\ response.headers = {<<"Content-Type", "text/plain">>}
          /\ response.body = ResultMessage(availableSlots)
       \/ /\ response.statusCode = 500
          /\ response.body = "An error occurred while processing the request."
    /\ (event.type = "object" /\ event.body.type = "string"
          /\ event.body.text = "not json") => response.statusCode = 500

\* C5 witness: a request whose body is not JSON has been answered with 500.
C5_NotJsonAnswered ==
  /\ pc = "returned"
  /\ event.type = "object" /\ event.body.type = "string"
  /\ event.body.text = "not json"
  /\ response.statusCode = 500

\* C6: N >= 2 free slots: the prefix, the rendered slots in grid order joined
\* "{s1} and {s2}" for N = 2 and "{s1}, ..., and {sN}" for N >= 3, and a
\* final period.
C6_ListSentence ==
  (Returned200 /\ Len(availableSlots) >= 2) =>
    response.body = MessagePrefix \o OxfordList(RenderedFree) \o "."

\* C7: every free slot is rendered "{start} to {end}", end the clock time 30
\* minutes after start, both on the 12-hour clock (minutes 00 omitted).
C7_SlotRenderedWithClockEnd ==
  Returned200 =>
    \A i \in GridIndexes :
      IsFree(i) =>
        RenderSlot(allSlots[i])
          = ClockLabel(GridStart(i)) \o " to " \o ClockLabel(GridStart(i) + 30)

\* C8 (as stated): the number of free slots plus the number of matched busy
\* slots the handler computed (its busySlots array) is 18.
C8_FreePlusPushedIs18 ==
  Returned200 => Len(availableSlots) + Len(busySlots) = 18

\* C8 (amended): the number of free slots plus the number of distinct matched
\* busy slots (the handler's busySet) is 18, and no slot is both.
C8_FreePlusDistinctBusyIs18 ==
  Returned200 =>
    /\ Len(availableSlots) + Cardinality(Range(busySlots)) = 18
    /\ Range(availableSlots) \cap Range(busySlots) = {}
    /\ Range(availableSlots) \cup Range(busySlots) = GridSlots

\* C8 witness: a request with repeated or overlapping busy intervals, which
\* matched the same slot more than once, has been answered.
C8_RepeatedMatchAnswered ==
  /\ Returned200
  /\ Len(RequestBusyList) >= 2
  /\ Cardinality(Range(busySlots)) < Len(busySlots)

\* C9: a busy list that covers the whole working day 09:00-18:00, aligned to
\* the grid or not, gives exactly "There are no available time slots."
C9_FullDayGivesNoSlots ==
  (Returned200 /\ CoversWorkingDay(RequestBusyList, hostOffset)) =>
    response.body = "There are no available time slots."

\* C10: exactly one free slot: the prefix, the rendered slot and a period.
C10_SingleSlotSentence ==
  (Returned200 /\ Len(availableSlots) = 1) =>
    response.body = MessagePrefix \o RenderSlot(availableSlots[1]) \o "."

====
